---- MODULE Spec2Model ----
(***************************************************************************)
(* Model of scripts/update-news.py: the news archiver's source filter,     *)
(* title/date normalisation, archive merge and the orchestrating main().   *)
(*                                                                         *)
(* Python str values are TLA+ strings; s[i] is SubSeq(s, i, i).  A link is *)
(* a string too, but only its identity is ever used by the code.           *)
(***************************************************************************)
EXTENDS Integers, Sequences, FiniteSets, TLC

(***************************************************************************)
(* Python str primitives used by the script                                *)
(***************************************************************************)

CharAt(s, i) == SubSeq(s, i, i)

\* ord(c) for the printable ASCII characters (but the grave accent).
OrdMap ==
  " " :> 32 @@ "!" :> 33 @@ "\"" :> 34 @@ "#" :> 35 @@ "$" :> 36 @@
  "%" :> 37 @@ "&" :> 38 @@ "'" :> 39 @@ "(" :> 40 @@ ")" :> 41 @@
  "*" :> 42 @@ "+" :> 43 @@ "," :> 44 @@ "-" :> 45 @@ "." :> 46 @@
  "/" :> 47 @@ "0" :> 48 @@ "1" :> 49 @@ "2" :> 50 @@ "3" :> 51 @@
  "4" :> 52 @@ "5" :> 53 @@ "6" :> 54 @@ "7" :> 55 @@ "8" :> 56 @@
  "9" :> 57 @@ ":" :> 58 @@ ";" :> 59 @@ "<" :> 60 @@ "=" :> 61 @@
  ">" :> 62 @@ "?" :> 63 @@ "@" :> 64 @@ "A" :> 65 @@ "B" :> 66 @@
  "C" :> 67 @@ "D" :> 68 @@ "E" :> 69 @@ "F" :> 70 @@ "G" :> 71 @@
  "H" :> 72 @@ "I" :> 73 @@ "J" :> 74 @@ "K" :> 75 @@ "L" :> 76 @@
  "M" :> 77 @@ "N" :> 78 @@ "O" :> 79 @@ "P" :> 80 @@ "Q" :> 81 @@
  "R" :> 82 @@ "S" :> 83 @@ "T" :> 84 @@ "U" :> 85 @@ "V" :> 86 @@
  "W" :> 87 @@ "X" :> 88 @@ "Y" :> 89 @@ "Z" :> 90 @@ "[" :> 91 @@
  "\\" :> 92 @@ "]" :> 93 @@ "^" :> 94 @@ "_" :> 95 @@ "a" :> 97 @@
  "b" :> 98 @@ "c" :> 99 @@ "d" :> 100 @@ "e" :> 101 @@ "f" :> 102 @@
  "g" :> 103 @@ "h" :> 104 @@ "i" :> 105 @@ "j" :> 106 @@ "k" :> 107 @@
  "l" :> 108 @@ "m" :> 109 @@ "n" :> 110 @@ "o" :> 111 @@ "p" :> 112 @@
  "q" :> 113 @@ "r" :> 114 @@ "s" :> 115 @@ "t" :> 116 @@ "u" :> 117 @@
  "v" :> 118 @@ "w" :> 119 @@ "x" :> 120 @@ "y" :> 121 @@ "z" :> 122 @@
  "{" :> 123 @@ "|" :> 124 @@ "}" :> 125 @@ "~" :> 126

Ord(c) == OrdMap[c]

\* int(c) for the decimal digits.
DigitMap ==
  "0" :> 0 @@ "1" :> 1 @@ "2" :> 2 @@ "3" :> 3 @@ "4" :> 4 @@ "5" :> 5 @@
  "6" :> 6 @@ "7" :> 7 @@ "8" :> 8 @@ "9" :> 9

\* c.lower() for the upper-case letters.
LowerMap ==
  "A" :> "a" @@ "B" :> "b" @@ "C" :> "c" @@ "D" :> "d" @@ "E" :> "e" @@
  "F" :> "f" @@ "G" :> "g" @@ "H" :> "h" @@ "I" :> "i" @@ "J" :> "j" @@
  "K" :> "k" @@ "L" :> "l" @@ "M" :> "m" @@ "N" :> "n" @@ "O" :> "o" @@
  "P" :> "p" @@ "Q" :> "q" @@ "R" :> "r" @@ "S" :> "s" @@ "T" :> "t" @@
  "U" :> "u" @@ "V" :> "v" @@ "W" :> "w" @@ "X" :> "x" @@ "Y" :> "y" @@
  "Z" :> "z"

\* str.lower() on one character.
LowerChar(c) == IF c \in DOMAIN LowerMap THEN LowerMap[c] ELSE c

RECURSIVE Lower(_)
\* str.lower()
Lower(s) == IF s = "" THEN "" ELSE LowerChar(CharAt(s, 1)) \o Lower(Tail(s))

\* Characters str.strip() removes.
IsSpace(c) == c \in {" ", "\t", "\n", "\r", "\f"}

RECURSIVE LStrip(_)
LStrip(s) == IF s # "" /\ IsSpace(CharAt(s, 1)) THEN LStrip(Tail(s)) ELSE s

RECURSIVE RStrip(_)
RStrip(s) ==
  IF s # "" /\ IsSpace(CharAt(s, Len(s)))
    THEN RStrip(SubSeq(s, 1, Len(s) - 1))
    ELSE s

\* str.strip()
Strip(s) == RStrip(LStrip(s))

\* The 0-based positions at which sub occurs in s.
Occurrences(sub, s) ==
  { p \in 0..(Len(s) - Len(sub)) : SubSeq(s, p + 1, p + Len(sub)) = sub }

\* sub in s
Contains(sub, s) == Occurrences(sub, s) # {}

\* s.rfind(sub) for a sub that occurs in s.
RFind(sub, s) ==
  CHOOSE p \in Occurrences(sub, s) : \A q \in Occurrences(sub, s) : q <= p

\* s.rsplit(sep, 1) for a sep that occurs in s: <<parts[0], parts[1]>>.
RSplit1(s, sep) ==
  << SubSeq(s, 1, RFind(sep, s)),
     SubSeq(s, RFind(sep, s) + Len(sep) + 1, Len(s)) >>

RECURSIVE StrLess(_, _)
\* a < b for Python str (code-point lexicographic order).
StrLess(a, b) ==
  IF b = "" THEN FALSE
  ELSE IF a = "" THEN TRUE
  ELSE IF CharAt(a, 1) = CharAt(b, 1) THEN StrLess(Tail(a), Tail(b))
  ELSE Ord(CharAt(a, 1)) < Ord(CharAt(b, 1))

\* a >= b for Python str.
StrGeq(a, b) == ~StrLess(a, b)

(***************************************************************************)
(* Configuration                                                           *)
(***************************************************************************)

COMPANIES ==
  << [name |-> "Novo Nordisk", query |-> "Novo Nordisk",
      color |-> "var(--purple)", logo |-> "logos/novo-nordisk.png"],
     [name |-> "Hyundai E&C", query |-> "Hyundai Engineering Construction",
      color |-> "var(--coral)", logo |-> "logos/hyundai-enc.png"],
     [name |-> "Kiwoom Securities", query |-> "Kiwoom Securities",
      color |-> "var(--teal)", logo |-> "logos/kiwoom-securities.png"],
     [name |-> "Woori Financial Group", query |-> "Woori Financial Group",
      color |-> "var(--amber)", logo |-> "logos/woori-financial.png"] >>

ALLOWED_SOURCES ==
  << "Nikkei Asia", "Financial Times", "Bloomberg",
     "South China Morning Post", "CHOSUNBIZ", "The Korea Times",
     "The Korea Herald", "Reuters", "The Japan Times",
     "Yonhap News Agency", "CNBC", "Barron's", "WSJ" >>

\* src.lower() for each src in ALLOWED_SOURCES.
ALLOWED_LOWER ==
  << "nikkei asia", "financial times", "bloomberg",
     "south china morning post", "chosunbiz", "the korea times",
     "the korea herald", "reuters", "the japan times",
     "yonhap news agency", "cnbc", "barron's", "wsj" >>

MAX_ITEMS_PER_FETCH == 20

\* s[a:b] (0-based, half open) for 0 <= a <= b <= len(s).
Slice(s, a, b) == SubSeq(s, a + 1, b)

SeqToSet(q) == { q[k] : k \in 1..Len(q) }

(***************************************************************************)
(* parse_date and datetime.isoformat                                       *)
(*                                                                         *)
(* strptime is modelled for the five formats of parse_date with every      *)
(* numeric field at its full width (two digits, four for the year), which  *)
(* is how the dates drawn below are written; %Z accepts the names UTC and  *)
(* GMT.  A parsed datetime is the record of its fields; tz is "" for a     *)
(* naive datetime and the "+HH:MM" offset for an aware one.                *)
(***************************************************************************)

None == [ok |-> FALSE]

WEEKDAYS == <<"mon", "tue", "wed", "thu", "fri", "sat", "sun">>

MONTHS ==
  <<"jan", "feb", "mar", "apr", "may", "jun",
    "jul", "aug", "sep", "oct", "nov", "dec">>

IsDigits(s) == \A k \in 1..Len(s) : CharAt(s, k) \in DOMAIN DigitMap

RECURSIVE ToInt(_)
\* int(s) for a string of digits.
ToInt(s) ==
  IF s = "" THEN 0
  ELSE 10 * ToInt(SubSeq(s, 1, Len(s) - 1)) + DigitMap[CharAt(s, Len(s))]

\* "%02d" % n
TwoDigits(n) == CharAt("0123456789", (n \div 10) + 1) \o CharAt("0123456789", (n % 10) + 1)

IsLeap(y) == (y % 4 = 0 /\ y % 100 # 0) \/ y % 400 = 0

DaysInMonth(y, m) ==
  IF m = 2 THEN (IF IsLeap(y) THEN 29 ELSE 28)
  ELSE IF m \in {4, 6, 9, 11} THEN 30 ELSE 31

\* The month number of a three-letter month name, or 0.
MonthOf(s) ==
  IF \E k \in 1..12 : MONTHS[k] = Lower(s)
    THEN CHOOSE k \in 1..12 : MONTHS[k] = Lower(s)
    ELSE 0

\* datetime(Y, m, d, H, M, S): the fields as digit strings; ValueError (None)
\* when a field is not numeric or is out of the range datetime accepts.
MkDate(Y, m, d, H, M, S, tz) ==
  IF /\ IsDigits(Y \o d \o H \o M \o S)
     /\ ToInt(Y) >= 1
     /\ m \in 1..12
     /\ ToInt(d) \in 1..DaysInMonth(ToInt(Y), m)
     /\ ToInt(H) \in 0..23
     /\ ToInt(M) \in 0..59
     /\ ToInt(S) \in 0..59
    THEN [ok |-> TRUE, Y |-> Y, m |-> TwoDigits(m), d |-> d,
          H |-> H, M |-> M, S |-> S, tz |-> tz]
    ELSE None

\* %z: "Z", "+HHMM" or "+HH:MM" (either sign); the offset as "+HH:MM", or "?"
\* when s is no UTC offset.
ParseOffset(s) ==
  IF s = "Z" THEN "+00:00"
  ELSE IF /\ Len(s) \in {5, 6}
          /\ CharAt(s, 1) \in {"+", "-"}
          /\ Len(s) = 6 => CharAt(s, 4) = ":"
          /\ IsDigits(Slice(s, 1, 3) \o Slice(s, Len(s) - 2, Len(s)))
          /\ ToInt(Slice(s, Len(s) - 2, Len(s))) \in 0..59
    THEN Slice(s, 0, 3) \o ":" \o Slice(s, Len(s) - 2, Len(s))
  ELSE "?"

\* "%a, %d %b %Y %H:%M:%S " followed by a zone of the given kind.
ParseRfc822(s, zone) ==
  IF /\ Len(s) > 26
     /\ Lower(Slice(s, 0, 3)) \in SeqToSet(WEEKDAYS)
     /\ Slice(s, 3, 5) = ", "
     /\ CharAt(s, 8) = " "
     /\ MonthOf(Slice(s, 8, 11)) # 0
     /\ CharAt(s, 12) = " "
     /\ CharAt(s, 17) = " "
     /\ CharAt(s, 20) = ":"
     /\ CharAt(s, 23) = ":"
     /\ CharAt(s, 26) = " "
     /\ IF zone = "%Z"
          THEN Lower(Slice(s, 26, Len(s))) \in {"utc", "gmt"}
          ELSE ParseOffset(Slice(s, 26, Len(s))) # "?"
    THEN MkDate(Slice(s, 12, 16), MonthOf(Slice(s, 8, 11)), Slice(s, 5, 7),
                Slice(s, 17, 19), Slice(s, 20, 22), Slice(s, 23, 25),
                IF zone = "%Z" THEN "" ELSE ParseOffset(Slice(s, 26, Len(s))))
    ELSE None

\* "%Y-%m-%d" sep "%H:%M:%S" followed by: a %z offset, the literal Z, nothing.
ParseIso(s, sep, tail) ==
  IF /\ Len(s) >= 19
     /\ CharAt(s, 5) = "-"
     /\ CharAt(s, 8) = "-"
     /\ CharAt(s, 11) = sep
     /\ CharAt(s, 14) = ":"
     /\ CharAt(s, 17) = ":"
     /\ IsDigits(Slice(s, 5, 7))
     /\ CASE tail = "%z" -> ParseOffset(Slice(s, 19, Len(s))) # "?"
          [] tail = "Z" -> Slice(s, 19, Len(s)) = "Z"
          [] OTHER -> Len(s) = 19
    THEN MkDate(Slice(s, 0, 4), ToInt(Slice(s, 5, 7)), Slice(s, 8, 10),
                Slice(s, 11, 13), Slice(s, 14, 16), Slice(s, 17, 19),
                IF tail = "%z" THEN ParseOffset(Slice(s, 19, Len(s))) ELSE "")
    ELSE None

\* datetime.strptime(date_str, formats[k]); None stands for ValueError.
Strptime(date_str, k) ==
  CASE k = 1 -> ParseRfc822(date_str, "%Z")
    [] k = 2 -> ParseRfc822(date_str, "%z")
    [] k = 3 -> ParseIso(date_str, "T", "%z")
    [] k = 4 -> ParseIso(date_str, "T", "Z")
    [] k = 5 -> ParseIso(date_str, " ", "")

\* The first format that parses, in order; None when none does.
parse_date(date_str) ==
  IF \E k \in 1..5 : Strptime(date_str, k).ok
    THEN Strptime(date_str,
                  CHOOSE k \in 1..5 :
                    /\ Strptime(date_str, k).ok
                    /\ \A j \in 1..(k - 1) : ~Strptime(date_str, j).ok)
    ELSE None

\* dt.isoformat()
isoformat(dt) ==
  dt.Y \o "-" \o dt.m \o "-" \o dt.d \o "T" \o dt.H \o ":" \o dt.M \o ":" \o dt.S
    \o dt.tz

\* normalize_item's iso_date.
IsoDate(pubDate) ==
  IF parse_date(pubDate).ok THEN isoformat(parse_date(pubDate)) ELSE pubDate

(***************************************************************************)
(* is_from_allowed_source                                                  *)
(***************************************************************************)

is_from_allowed_source(item) ==
  \E k \in 1..Len(ALLOWED_SOURCES) :
    \/ Contains(ALLOWED_LOWER[k], Lower(item.title))
    \/ Contains(ALLOWED_LOWER[k], Lower(item.source))

(***************************************************************************)
(* normalize_item: the title strip loop, one iteration at a time           *)
(***************************************************************************)

DELIM == " - "

\* The while condition: " - " in title.
LoopCond(title) == Contains(DELIM, title)

\* parts = title.rsplit(" - ", 1)
Parts(title) == RSplit1(title, DELIM)

\* trailing = parts[1].strip()
TrailingOf(parts) == Strip(parts[2])

\* is_source: the trailing segment is an allow-listed name, ignoring case.
IsSource(trailing) ==
  \E k \in 1..Len(ALLOWED_SOURCES) : Lower(trailing) = ALLOWED_LOWER[k]

\* Mutant of Matches: a generic "last dash" trim, whatever the segment is.
Matches_AnySegment(is_source, source, trailing) == TRUE

\* The if of the loop body: is_source or (source and trailing == source).
Matches(is_source, source, trailing) ==
  is_source \/ (source # "" /\ Lower(trailing) = Lower(source))

\* if not source: source = trailing
AdoptSource(source, trailing) == IF source = "" THEN trailing ELSE source

\* Mutant of NewTitle: the cut title is never assigned back.
NewTitle_NotAssigned(parts) == parts[1] \o DELIM \o parts[2]

\* title = parts[0].strip()
NewTitle(parts) == Strip(parts[1])

RECURSIVE StripLoop(_, _)
\* The whole while loop: <<title, source>> when it is left.
StripLoop(title, source) ==
  IF /\ LoopCond(title)
     /\ Matches(IsSource(TrailingOf(Parts(title))), source,
                TrailingOf(Parts(title)))
    THEN StripLoop(NewTitle(Parts(title)),
                   AdoptSource(source, TrailingOf(Parts(title))))
    ELSE <<title, source>>

normalize_item(item) ==
  LET stripped == StripLoop(item.title, item.source)
  IN  [title   |-> stripped[1],
       link    |-> item.link,
       pubDate |-> IsoDate(item.pubDate),
       source  |-> stripped[2]]

(***************************************************************************)
(* merge_items                                                             *)
(***************************************************************************)

Links(list) == { list[k].link : k \in 1..Len(list) }

RECURSIVE MergeLoop_CountAll(_, _, _, _)
\* Mutant of MergeLoop: added counts every incoming item, appended or not.
MergeLoop_CountAll(existing, seen_links, added_so_far, new_items) ==
  IF new_items = <<>> THEN [list |-> existing, added |-> added_so_far]
  ELSE IF Head(new_items).link \notin seen_links
    THEN MergeLoop_CountAll(Append(existing, Head(new_items)),
                            seen_links \cup {Head(new_items).link},
                            added_so_far + 1,
                            Tail(new_items))
    ELSE MergeLoop_CountAll(existing, seen_links, added_so_far + 1, Tail(new_items))

RECURSIVE MergeLoop_SeenNotUpdated(_, _, _, _)
\* Mutant of MergeLoop: an appended link is not added to seen_links.
MergeLoop_SeenNotUpdated(existing, seen_links, added_so_far, new_items) ==
  IF new_items = <<>> THEN [list |-> existing, added |-> added_so_far]
  ELSE IF Head(new_items).link \notin seen_links
    THEN MergeLoop_SeenNotUpdated(Append(existing, Head(new_items)),
                                  seen_links, added_so_far + 1, Tail(new_items))
    ELSE MergeLoop_SeenNotUpdated(existing, seen_links, added_so_far,
                                  Tail(new_items))

RECURSIVE MergeLoop_Overwrite(_, _, _, _)
\* Mutant of MergeLoop: an incoming item replaces the stored item of its link.
MergeLoop_Overwrite(existing, seen_links, added_so_far, new_items) ==
  IF new_items = <<>> THEN [list |-> existing, added |-> added_so_far]
  ELSE IF Head(new_items).link \notin seen_links
    THEN MergeLoop_Overwrite(Append(existing, Head(new_items)),
                             seen_links \cup {Head(new_items).link},
                             added_so_far + 1, Tail(new_items))
    ELSE MergeLoop_Overwrite(
           [k \in 1..Len(existing) |->
              IF existing[k].link = Head(new_items).link
                THEN Head(new_items) ELSE existing[k]],
           seen_links, added_so_far, Tail(new_items))

RECURSIVE MergeLoop(_, _, _, _)
\* The for loop over new_items, with the list, seen_links and added so far.
MergeLoop(existing, seen_links, added_so_far, new_items) ==
  IF new_items = <<>> THEN [list |-> existing, added |-> added_so_far]
  ELSE IF Head(new_items).link \notin seen_links
    THEN MergeLoop(Append(existing, Head(new_items)),
                   seen_links \cup {Head(new_items).link},
                   added_so_far + 1,
                   Tail(new_items))
    ELSE MergeLoop(existing, seen_links, added_so_far, Tail(new_items))

RECURSIVE InsertDesc(_, _)
\* x placed after every element whose key is >= its own: one step of a
\* stable sort into descending order.
InsertDesc(sorted, x) ==
  IF sorted = <<>> THEN <<x>>
  ELSE IF StrGeq(Head(sorted).pubDate, x.pubDate)
    THEN <<Head(sorted)>> \o InsertDesc(Tail(sorted), x)
    ELSE <<x>> \o sorted

\* Mutant of SortDesc: the list is left in append order.
SortDesc_NoSort(list) == list

RECURSIVE SortDesc(_)
\* list.sort(key=pubDate, reverse=True): stable, descending by str order.
SortDesc(list) ==
  IF list = <<>> THEN <<>>
  ELSE InsertDesc(SortDesc(SubSeq(list, 1, Len(list) - 1)), list[Len(list)])

\* Mutant of merge_items: seen_links starts empty instead of from existing.
merge_items_EmptySeen(existing, new_items) ==
  [list  |-> SortDesc(MergeLoop(existing, {}, 0, new_items).list),
   added |-> MergeLoop(existing, {}, 0, new_items).added]

\* merge_items(existing, new_items) = (list, added)
merge_items(existing, new_items) ==
  [list  |-> SortDesc(MergeLoop(existing, Links(existing), 0, new_items).list),
   added |-> MergeLoop(existing, Links(existing), 0, new_items).added]

(***************************************************************************)
(* State                                                                   *)
(***************************************************************************)

VARIABLES
  \* main(): one run of the script after another
  pc,            \* "idle", "start", "loop", "done": where main() is
  data,          \* the in-memory archive of the running process
  file,          \* news-data.json: [exists, doc]
  i,             \* 1-based index of the company the for loop is at
  total_added,   \* main()'s total_added
  exit_status,   \* what sys.exit receives; -1 while main() is running
  now,           \* the clock datetime.now reads
  runs,          \* completed runs
  writes,        \* history: writes of news-data.json in the current run
  start,         \* history: data["companies"] as loaded in the current run
  failed,        \* history: the companies whose fetch raised in this run
  feed,          \* history: which feed the last fetch_rss returned, or "none"
  normalized,    \* main()'s normalized, as last passed to merge_items
  added,         \* main()'s added, as last returned by merge_items
  \* normalize_item's title loop
  npc,           \* "idle", "while", "body", "if", "done"
  nItem,         \* the raw item passed in
  nTitle,        \* local title
  nSource,       \* local source
  nParts,        \* local parts
  nTrailing,     \* local trailing
  nIsSource,     \* local is_source
  nRemoved,      \* history: each parts[1] the loop has cut off, in order
  \* merge_items applied once and then again on its own result
  mpc,           \* "idle", "first", "second", "done"
  mExisting,     \* existing, as passed to the first call
  mIncoming,     \* new_items
  mFirst,        \* (list, added) of merge_items(existing, new_items)
  mSecond        \* (list, added) of merge_items(mFirst.list, new_items)

varsMain ==
  <<pc, data, file, i, total_added, exit_status, now, runs, writes, start,
    failed, feed, normalized, added>>

varsNormalize ==
  <<npc, nItem, nTitle, nSource, nParts, nTrailing, nIsSource, nRemoved>>

varsMerge == <<mpc, mExisting, mIncoming, mFirst, mSecond>>

vars == <<varsMain, varsNormalize, varsMerge>>

NoItem == [title |-> "", link |-> "", pubDate |-> "", source |-> ""]

NoMerge == [list |-> <<>>, added |-> 0]

EmptyDoc == [lastUpdated |-> "", companies |-> <<>>, companyMeta |-> <<>>]

InitMainIdle ==
  /\ pc = "idle"
  /\ data = EmptyDoc
  /\ file = [exists |-> FALSE, doc |-> EmptyDoc]
  /\ i = 0
  /\ total_added = 0
  /\ exit_status = -1
  /\ now = 0
  /\ runs = 0
  /\ writes = 0
  /\ start = <<>>
  /\ failed = {}
  /\ feed = "none"
  /\ normalized = <<>>
  /\ added = 0

InitNormalizeIdle ==
  /\ npc = "idle"
  /\ nItem = NoItem
  /\ nTitle = ""
  /\ nSource = ""
  /\ nParts = <<"", "">>
  /\ nTrailing = ""
  /\ nIsSource = FALSE
  /\ nRemoved = <<>>

InitMergeIdle ==
  /\ mpc = "idle"
  /\ mExisting = <<>>
  /\ mIncoming = <<>>
  /\ mFirst = NoMerge
  /\ mSecond = NoMerge

(***************************************************************************)
(* normalize_item's title loop on bounded raw titles                       *)
(***************************************************************************)

MaxSegments == 2

\* What precedes the trailing segments of a raw title.
HEADS == {"Talks", "Q3 ", "A -"}

\* Trailing segments: publisher names in several spellings, with and without
\* stray blanks, and text that names no publisher.
SEGMENTS == {"WSJ", "Chosunbiz", " CNBC", "Reuters ", "for now", "", "acme"}

\* The source field of the raw item.
SOURCES == {"", "Acme", "Reuters UK"}

RECURSIVE TitlesWith(_)
\* The raw titles with exactly n trailing segments.
TitlesWith(n) ==
  IF n = 0 THEN HEADS
  ELSE { t \o DELIM \o s : t \in TitlesWith(n - 1), s \in SEGMENTS }

RawTitles == UNION { TitlesWith(n) : n \in 0..MaxSegments }

InitNormalize ==
  /\ InitMainIdle
  /\ InitMergeIdle
  /\ npc = "while"
  /\ nItem \in [title : RawTitles, link : {"L1"},
                pubDate : {"2026-02-27 10:30:00"}, source : SOURCES]
  /\ nTitle = nItem.title
  /\ nSource = nItem.source
  /\ nParts = <<"", "">>
  /\ nTrailing = ""
  /\ nIsSource = FALSE
  /\ nRemoved = <<>>

\* while " - " in title: enter the body, or leave the loop.
LoopTest ==
  /\ npc = "while"
  /\ npc' = IF LoopCond(nTitle) THEN "body" ELSE "done"
  /\ UNCHANGED <<nItem, nTitle, nSource, nParts, nTrailing, nIsSource,
                 nRemoved, varsMain, varsMerge>>

\* parts, trailing and is_source are computed.
LoopSplit ==
  /\ npc = "body"
  /\ nParts' = Parts(nTitle)
  /\ nTrailing' = TrailingOf(nParts')
  /\ nIsSource' = IsSource(nTrailing')
  /\ npc' = "if"
  /\ UNCHANGED <<nItem, nTitle, nSource, nRemoved, varsMain, varsMerge>>

\* The trailing segment matches: it is cut off and the loop goes round.
LoopStrip ==
  /\ npc = "if"
  /\ Matches(nIsSource, nSource, nTrailing)
  /\ nSource' = AdoptSource(nSource, nTrailing)
  /\ nTitle' = NewTitle(nParts)
  /\ nRemoved' = Append(nRemoved, nParts[2])
  /\ npc' = "while"
  /\ UNCHANGED <<nItem, nParts, nTrailing, nIsSource, varsMain, varsMerge>>

\* The trailing segment does not match: break.
LoopBreak ==
  /\ npc = "if"
  /\ ~Matches(nIsSource, nSource, nTrailing)
  /\ npc' = "done"
  /\ UNCHANGED <<nItem, nTitle, nSource, nParts, nTrailing, nIsSource,
                 nRemoved, varsMain, varsMerge>>

NextNormalize == LoopTest \/ LoopSplit \/ LoopStrip \/ LoopBreak

\* The interpreter keeps executing the loop while a step of it is possible.
SpecNormalize ==
  InitNormalize /\ [][NextNormalize]_vars /\ WF_vars(NextNormalize)

(***************************************************************************)
(* merge_items on bounded lists                                            *)
(***************************************************************************)

MaxExisting == 2

MaxIncoming == 2

\* Stored items: two links, each under three dates (an ISO date, the same
\* date with an offset, and a raw date no format parsed).
MERGE_ITEMS ==
  [title : {"Talks"}, link : {"L1", "L2"},
   pubDate : {"2026-02-27T10:30:00", "2026-02-27T10:30:00+09:00",
              "Thu, 30 Feb 2026 10:30:00 GMT"},
   source : {"WSJ"}]

BoundedSeq(S, n) == UNION { [1..k -> S] : k \in 0..n }

InitMerge ==
  /\ InitMainIdle
  /\ InitNormalizeIdle
  /\ mpc = "first"
  /\ mExisting \in BoundedSeq(MERGE_ITEMS, MaxExisting)
  /\ mIncoming \in BoundedSeq(MERGE_ITEMS, MaxIncoming)
  /\ mFirst = NoMerge
  /\ mSecond = NoMerge

MergeFirst ==
  /\ mpc = "first"
  /\ mFirst' = merge_items(mExisting, mIncoming)
  /\ mpc' = "second"
  /\ UNCHANGED <<mExisting, mIncoming, mSecond, varsMain, varsNormalize>>

MergeSecond ==
  /\ mpc = "second"
  /\ mSecond' = merge_items(mFirst.list, mIncoming)
  /\ mpc' = "done"
  /\ UNCHANGED <<mExisting, mIncoming, mFirst, varsMain, varsNormalize>>

NextMerge == MergeFirst \/ MergeSecond

SpecMerge == InitMerge /\ [][NextMerge]_vars

(***************************************************************************)
(* main(): runs of the script against what fetch_rss may return            *)
(***************************************************************************)

MaxRuns == 2

\* How many raw items the long feed holds beyond MAX_ITEMS_PER_FETCH.
BigExtra == 3

CompanyNames == { COMPANIES[k].name : k \in 1..Len(COMPANIES) }

\* A feed of two stories and a blog post; the first story comes twice, the
\* second time under another title and date.
FEED_A ==
  << [title |-> "Talks Continue - Reuters", link |-> "L1",
      pubDate |-> "Thu, 26 Feb 2026 10:30:00 GMT", source |-> "Reuters"],
     [title |-> "Local Gossip - Daily Blog", link |-> "L9",
      pubDate |-> "Thu, 26 Feb 2026 11:00:00 GMT", source |-> "Daily Blog"],
     [title |-> "Market Rallies - CHOSUNBIZ - Chosunbiz", link |-> "L2",
      pubDate |-> "2026-02-27T08:00:00Z", source |-> ""],
     [title |-> "Talks Go On - Reuters", link |-> "L1",
      pubDate |-> "Fri, 27 Feb 2026 09:00:00 +0900", source |-> "Reuters"] >>

\* A later feed: the first story again with other fields and an unparsable
\* date, and a new story.
FEED_B ==
  << [title |-> "Talks Collapse - WSJ", link |-> "L1",
      pubDate |-> "not a date", source |-> "WSJ"],
     [title |-> "Rates Up - for now - CNBC", link |-> "L3",
      pubDate |-> "2026-03-01 09:00:00", source |-> "CNBC"] >>

\* A feed with nothing from an allow-listed outlet.
FEED_NONE ==
  << [title |-> "Local Gossip - Daily Blog", link |-> "L9",
      pubDate |-> "Thu, 26 Feb 2026 11:00:00 GMT", source |-> "Daily Blog"] >>

\* A feed longer than MAX_ITEMS_PER_FETCH: items 1 and 3 are blog posts, every
\* other item is a distinct allow-listed story.
FEED_BIG ==
  [k \in 1..(MAX_ITEMS_PER_FETCH + BigExtra) |->
     IF k \in {1, 3}
       THEN [title |-> "Local Gossip - Daily Blog",
             link |-> "B" \o TwoDigits(k),
             pubDate |-> "2026-03-02 " \o TwoDigits(k % 24) \o ":00:00",
             source |-> "Daily Blog"]
       ELSE [title |-> "Story - Bloomberg",
             link |-> "N" \o TwoDigits(k),
             pubDate |-> "2026-03-02 " \o TwoDigits(k % 24) \o ":00:00",
             source |-> "Bloomberg"]]

FEEDS == [A |-> FEED_A, B |-> FEED_B, NONE |-> FEED_NONE, BIG |-> FEED_BIG]

\* What fetch_rss may return for each company's query.
FeedsFor(name) ==
  CASE name = COMPANIES[1].name -> {"A", "B"}
    [] name = COMPANIES[2].name -> {"BIG", "NONE"}
    [] name = COMPANIES[3].name -> {"A"}
    [] OTHER -> {"B"}

\* data["companies"].get(name, [])
Entry(companies, name) ==
  IF name \in DOMAIN companies THEN companies[name] ELSE <<>>

\* d[key] = value on a dict d
DictSet(d, key, value) ==
  [n \in DOMAIN d \cup {key} |-> IF n = key THEN value ELSE d[n]]

\* [it for it in raw_items if is_from_allowed_source(it)]
Filtered(raw_items) == SelectSeq(raw_items, is_from_allowed_source)

\* s[:n]
Take(s, n) == SubSeq(s, 1, IF Len(s) < n THEN Len(s) ELSE n)

\* Mutant of Selected: the raw list is truncated before it is filtered.
Selected_TruncateFirst(raw_items) ==
  Filtered(Take(raw_items, MAX_ITEMS_PER_FETCH))

\* filtered[:MAX_ITEMS_PER_FETCH]
Selected(raw_items) == Take(Filtered(raw_items), MAX_ITEMS_PER_FETCH)

\* [normalize_item(it) for it in filtered[:MAX_ITEMS_PER_FETCH]]
Normalized(raw_items) ==
  LET selected == Selected(raw_items)
  IN  [k \in 1..Len(selected) |-> normalize_item(selected[k])]

\* The companyMeta entry main() stores for a company.
MetaOf(co) == [color |-> co.color, query |-> co.query, logo |-> co.logo]

\* data["companyMeta"] after the loop of lines 206-211.
UpsertMeta(meta) ==
  [n \in DOMAIN meta \cup CompanyNames |->
     IF n \in CompanyNames
       THEN MetaOf(COMPANIES[CHOOSE k \in 1..Len(COMPANIES) :
                               COMPANIES[k].name = n])
       ELSE meta[n]]

\* load_existing_data()
load_existing_data == IF file.exists THEN file.doc ELSE EmptyDoc

\* datetime.now(timezone.utc).isoformat(), for the clock reading t.
Timestamp(t) == ToString(t)

\* Mutant of LoopDone: the archive is saved from inside the loop.
LoopDone_InsideLoop == TRUE

\* The for loop over COMPANIES has run out.
LoopDone == i > Len(COMPANIES)

InitMain ==
  /\ InitNormalizeIdle
  /\ InitMergeIdle
  /\ pc = "start"
  /\ data = EmptyDoc
  /\ file = [exists |-> FALSE, doc |-> EmptyDoc]
  /\ i = 0
  /\ total_added = 0
  /\ exit_status = -1
  /\ now = 0
  /\ runs = 0
  /\ writes = 0
  /\ start = <<>>
  /\ failed = {}
  /\ feed = "none"
  /\ normalized = <<>>
  /\ added = 0

\* main() up to the for loop: the archive is loaded, companyMeta upserted.
Start ==
  /\ pc = "start"
  /\ data' = [load_existing_data EXCEPT
                !.companyMeta = UpsertMeta(load_existing_data.companyMeta)]
  /\ start' = load_existing_data.companies
  /\ total_added' = 0
  /\ i' = 1
  /\ pc' = "loop"
  /\ UNCHANGED <<file, exit_status, now, runs, writes, failed, feed,
                 normalized, added, varsNormalize, varsMerge>>

\* One iteration of the for loop in which nothing raises: the feed f is
\* fetched, filtered, truncated, normalized and merged.
ProcessCompany(f) ==
  /\ pc = "loop"
  /\ ~LoopDone
  /\ f \in FeedsFor(COMPANIES[i].name)
  /\ feed' = f
  /\ normalized' = Normalized(FEEDS[f])
  /\ LET merged == merge_items(Entry(data.companies, COMPANIES[i].name),
                               normalized')
     IN  /\ data' = [data EXCEPT
                       !.companies = DictSet(@, COMPANIES[i].name, merged.list)]
         /\ added' = merged.added
         /\ total_added' = total_added + merged.added
  /\ i' = i + 1
  /\ UNCHANGED <<pc, file, exit_status, now, runs, writes, start, failed,
                 varsNormalize, varsMerge>>

\* Mutant of FetchFails: the exception ends the loop.
FetchFails_EndsLoop ==
  /\ pc = "loop"
  /\ i <= Len(COMPANIES)
  /\ failed' = failed \cup {COMPANIES[i].name}
  /\ i' = Len(COMPANIES) + 1
  /\ UNCHANGED <<pc, data, file, total_added, exit_status, now, runs, writes,
                 start, feed, normalized, added, varsNormalize, varsMerge>>

\* One iteration of the for loop in which fetch_rss raises: the except
\* clause logs it and the loop goes on.
FetchFails ==
  /\ pc = "loop"
  /\ ~LoopDone
  /\ failed' = failed \cup {COMPANIES[i].name}
  /\ i' = i + 1
  /\ UNCHANGED <<pc, data, file, total_added, exit_status, now, runs, writes,
                 start, feed, normalized, added, varsNormalize, varsMerge>>

\* save_data(data) and return 0.
Save ==
  /\ pc = "loop"
  /\ LoopDone
  /\ now' = now + 1
  /\ data' = [data EXCEPT !.lastUpdated = Timestamp(now')]
  /\ file' = [exists |-> TRUE, doc |-> data']
  /\ writes' = writes + 1
  /\ exit_status' = 0
  /\ pc' = "done"
  /\ UNCHANGED <<i, total_added, runs, start, failed, feed, normalized,
                 added, varsNormalize, varsMerge>>

\* The schedule starts the script again, as a new process.
NextRun ==
  /\ pc = "done"
  /\ runs + 1 < MaxRuns
  /\ runs' = runs + 1
  /\ pc' = "start"
  /\ data' = EmptyDoc
  /\ i' = 0
  /\ total_added' = 0
  /\ exit_status' = -1
  /\ writes' = 0
  /\ start' = <<>>
  /\ failed' = {}
  /\ feed' = "none"
  /\ normalized' = <<>>
  /\ added' = 0
  /\ UNCHANGED <<file, now, varsNormalize, varsMerge>>

Next ==
  \/ Start
  \/ \E f \in DOMAIN FEEDS : ProcessCompany(f)
  \/ FetchFails
  \/ Save
  \/ NextRun

Spec == InitMain /\ [][Next]_vars

(***************************************************************************)
(* Properties of merge_items                                               *)
(***************************************************************************)

\* C2: merge is idempotent: merging the same batch B into the list that
\* merge(E, B) returned adds zero items.
C2_MergeIdempotent == mpc = "done" => mSecond.added = 0

\* The first merge appended some of the batch and dropped the rest as
\* duplicates, and the second merge has run.
C2_Witness ==
  /\ mpc = "done"
  /\ mFirst.added > 0
  /\ mFirst.added < Len(mIncoming)

\* C3: the merged list is as long as E plus the returned count, and its links
\* are exactly the links of E together with the links of B.
C3_LinkSetGrowth ==
  mpc \in {"second", "done"} =>
    /\ Len(mFirst.list) = Len(mExisting) + mFirst.added
    /\ Links(mFirst.list) = Links(mExisting) \cup Links(mIncoming)

\* A non-empty E met a batch holding both a link of E and a new link.
C3_Witness ==
  /\ mpc = "second"
  /\ mExisting # <<>>
  /\ Links(mIncoming) \cap Links(mExisting) # {}
  /\ Links(mIncoming) \ Links(mExisting) # {}
  /\ mFirst.added = 1

\* C4: after merge, whatever the order of E and whatever B, every adjacent
\* pair (a, b) of the merged list has a.pubDate >= b.pubDate as strings.
C4_SortInvariant ==
  mpc \in {"second", "done"} =>
    \A k \in 1..(Len(mFirst.list) - 1) :
      StrGeq(mFirst.list[k].pubDate, mFirst.list[k + 1].pubDate)

\* E was not in descending order, and the merged list holds an ISO date
\* next to a raw one.
C4_Witness ==
  /\ mpc = "second"
  /\ Len(mExisting) = 2
  /\ StrLess(mExisting[1].pubDate, mExisting[2].pubDate)
  /\ mFirst.added > 0
  /\ \E k \in 1..(Len(mFirst.list) - 1) :
       /\ ~parse_date(mFirst.list[k].pubDate).ok
       /\ StrLess(mFirst.list[k + 1].pubDate, mFirst.list[k].pubDate)

(***************************************************************************)
(* Properties of normalize_item's title loop                               *)
(***************************************************************************)

\* seg equals, ignoring case, an allow-listed name or the item's source.
MatchesLiteral(seg, source) ==
  \/ \E k \in 1..Len(ALLOWED_SOURCES) : Lower(seg) = Lower(ALLOWED_SOURCES[k])
  \/ (source # "" /\ Lower(seg) = Lower(source))

\* The same once the blanks around seg are trimmed.
MatchesTrimmed(seg, source) == MatchesLiteral(Strip(seg), source)

RECURSIVE Rejoin(_, _)
\* title followed by the removed segments, last removed first, each behind
\* its delimiter.
Rejoin(title, removed) ==
  IF removed = <<>> THEN title
  ELSE Rejoin(title \o DELIM \o removed[Len(removed)],
              SubSeq(removed, 1, Len(removed) - 1))

RECURSIVE NoBlanks(_)
\* s without its whitespace characters.
NoBlanks(s) ==
  IF s = "" THEN ""
  ELSE (IF IsSpace(CharAt(s, 1)) THEN "" ELSE CharAt(s, 1)) \o NoBlanks(Tail(s))

\* The text after the last " - " of a title that has one.
LastSegment(title) ==
  LET last == CHOOSE p \in Occurrences(DELIM, title) :
                \A q \in Occurrences(DELIM, title) : q <= p
  IN  Slice(title, last + Len(DELIM), Len(title))

\* C6 as stated: the normalized title is the raw title with exactly its
\* maximal run of matching trailing segments removed: the raw title is the
\* result followed by the removed segments, each of which equals (ignoring
\* case) an allow-listed name or the item's source, and the result's own last
\* segment, if any, does not.
C6_ExactStrip ==
  npc = "done" =>
    /\ nItem.title = Rejoin(nTitle, nRemoved)
    /\ \A k \in 1..Len(nRemoved) : MatchesLiteral(nRemoved[k], nItem.source)
    /\ LoopCond(nTitle) => ~MatchesLiteral(LastSegment(nTitle), nItem.source)

\* C6 as amended: the same up to blanks.  Each removed segment matches once
\* the blanks around it are trimmed; the result is the raw title itself when
\* nothing is removed and otherwise a prefix of it with the blanks around it
\* trimmed; what follows that prefix is, blanks aside, exactly the removed
\* segments with their delimiters; and the result's own last segment, if any,
\* does not match.
C6_StripUpToBlanks ==
  npc = "done" =>
    /\ \A k \in 1..Len(nRemoved) : MatchesTrimmed(nRemoved[k], nItem.source)
    /\ nRemoved = <<>> => nTitle = nItem.title
    /\ \E p \in 0..Len(nItem.title) :
         /\ nRemoved # <<>> => nTitle = Strip(Slice(nItem.title, 0, p))
         /\ NoBlanks(Slice(nItem.title, p, Len(nItem.title)))
              = NoBlanks(Rejoin("", nRemoved))
    /\ LoopCond(nTitle) => ~MatchesTrimmed(LastSegment(nTitle), nItem.source)

\* The loop removed a matching segment written with stray blanks and then
\* stopped at a segment that names no publisher.
C6_Witness ==
  /\ npc = "done"
  /\ nRemoved # <<>>
  /\ nItem.title # Rejoin(nTitle, nRemoved)
  /\ LoopCond(nTitle)

\* The number of " - " occurrences in a title.
DelimCount(title) == Cardinality(Occurrences(DELIM, title))

\* C7: the strip loop terminates, every iteration either leaves the loop or
\* strictly reduces the number of " - " delimiters in the title, and a title
\* without " - " is returned unchanged.
C7_StripTerminates ==
  /\ <>(npc = "done")
  /\ [][/\ npc = "if" =>
             npc' = "done" \/ DelimCount(nTitle') < DelimCount(nTitle)
        /\ npc # "if" => nTitle' = nTitle]_vars
  /\ [](npc = "done" /\ ~Contains(DELIM, nItem.title) => nTitle = nItem.title)

\* The loop has cut two segments off and has then been left.
C7_Witness == npc = "done" /\ Len(nRemoved) = 2

(***************************************************************************)
(* Properties of main()                                                    *)
(***************************************************************************)

UniqueLinks(list) ==
  \A a, b \in 1..Len(list) : a # b => list[a].link # list[b].link

ItemsOf(list) == { list[k] : k \in 1..Len(list) }

\* C1: starting from an empty archive, after any sequence of runs, whatever
\* the batches repeat and whichever companies fail, no company's list holds
\* two items with the same link, in memory or on disk.
C1_LinkUniqueness ==
  /\ \A name \in DOMAIN data.companies : UniqueLinks(data.companies[name])
  /\ \A name \in DOMAIN file.doc.companies :
       UniqueLinks(file.doc.companies[name])

\* A second run has ended in which some fetch failed, and the first company
\* has had both of its feeds merged: one repeats a link within itself, the
\* other repeats a link already archived.
C1_Witness ==
  /\ pc = "done"
  /\ runs = 1
  /\ failed # {}
  /\ Links(Entry(file.doc.companies, COMPANIES[1].name)) = {"L1", "L2", "L3"}

\* Every item of old is an item of new, and new holds no other item under a
\* link of old.
Kept(old, new) ==
  /\ ItemsOf(old) \subseteq ItemsOf(new)
  /\ \A x \in ItemsOf(new) : x.link \in Links(old) => x \in ItemsOf(old)

\* The same for every company's list of an archive.
Preserved(old, new) ==
  \A name \in DOMAIN old :
    name \in DOMAIN new /\ Kept(old[name], new[name])

\* C5: when the fetch for a company raises, that company's list stays exactly
\* as it was when the run began; the loop goes on to the next company; every
\* company whose fetch succeeds is merged as it would be had nothing failed;
\* and the run ends with exit status 0 after all companies were visited.
C5_FailureIsolation ==
  /\ [](\A name \in failed :
          /\ name \in DOMAIN data.companies <=> name \in DOMAIN start
          /\ Entry(data.companies, name) = Entry(start, name))
  /\ [][failed' # failed /\ failed' # {} =>
          /\ pc' = "loop"
          /\ i' = i + 1
          /\ data' = data]_vars
  /\ [][pc = "loop" /\ i' = i + 1 /\ failed' = failed =>
          data'.companies =
            DictSet(data.companies, COMPANIES[i].name,
                    merge_items(Entry(data.companies, COMPANIES[i].name),
                                normalized').list)]_vars
  /\ [](pc = "done" =>
          /\ exit_status = 0
          /\ i = Len(COMPANIES) + 1
          /\ failed \cup DOMAIN data.companies = CompanyNames \cup DOMAIN start)

\* A second run has ended in which the fetch of the second company failed,
\* its list of the first run is still there, and the companies before and
\* after it were merged.
C5_Witness ==
  /\ pc = "done"
  /\ runs = 1
  /\ failed = {COMPANIES[2].name}
  /\ Len(Entry(start, COMPANIES[2].name)) = MAX_ITEMS_PER_FETCH
  /\ Len(Entry(data.companies, COMPANIES[1].name))
       > Len(Entry(start, COMPANIES[1].name))
  /\ COMPANIES[3].name \notin DOMAIN start
  /\ COMPANIES[3].name \in DOMAIN data.companies

\* C8: in every run the archive is written exactly once, only after the loop
\* has visited every company, with lastUpdated refreshed by that write; the
\* file does not change while companies are being processed.
C8_SinglePersist ==
  /\ [](pc \in {"start", "loop"} => writes = 0)
  /\ [](pc = "done" =>
          /\ writes = 1
          /\ file.exists
          /\ file.doc = data
          /\ file.doc.lastUpdated = Timestamp(now))
  /\ [][file' # file \/ writes' > writes =>
          /\ pc = "loop"
          /\ i = Len(COMPANIES) + 1
          /\ pc' = "done"
          /\ writes' = writes + 1
          /\ file'.doc.lastUpdated # file.doc.lastUpdated]_vars

\* A second run with a failed fetch has ended with its one write.
C8_Witness ==
  /\ pc = "done"
  /\ runs = 1
  /\ failed # {}
  /\ writes = 1
  /\ file.doc.lastUpdated = Timestamp(2)

\* C9: what is normalized and merged for a company is exactly the first
\* MAX_ITEMS_PER_FETCH raw items, in feed order, of those that pass the source
\* filter; so a list grows by at most that many items in one iteration.
C9_FilterThenTruncate ==
  /\ [](feed # "none" =>
          LET raw == FEEDS[feed]
              allowed == { k \in 1..Len(raw) : is_from_allowed_source(raw[k]) }
              rank(k) == Cardinality({ j \in allowed : j <= k })
              first == { k \in allowed : rank(k) <= MAX_ITEMS_PER_FETCH }
          IN  /\ Len(normalized) = Cardinality(first)
              /\ \A k \in first : normalized[rank(k)] = normalize_item(raw[k]))
  /\ [](added <= MAX_ITEMS_PER_FETCH)
  /\ [][pc = "loop" /\ pc' = "loop" =>
          \A name \in CompanyNames :
            Len(Entry(data'.companies, name))
              <= Len(Entry(data.companies, name)) + MAX_ITEMS_PER_FETCH]_vars

\* The long feed was fetched: more than MAX_ITEMS_PER_FETCH of its items pass
\* the filter, two of its first items do not, and the last item merged lies
\* beyond raw position MAX_ITEMS_PER_FETCH.
C9_Witness ==
  /\ pc = "loop"
  /\ feed = "BIG"
  /\ Len(Filtered(FEED_BIG)) > MAX_ITEMS_PER_FETCH
  /\ Len(Filtered(Take(FEED_BIG, MAX_ITEMS_PER_FETCH))) < MAX_ITEMS_PER_FETCH
  /\ added = MAX_ITEMS_PER_FETCH
  /\ normalized[MAX_ITEMS_PER_FETCH].link
       = FEED_BIG[MAX_ITEMS_PER_FETCH + 2].link

\* C10: the archive is append-only: a step never removes or alters a stored
\* item, and never stores another item under a link already archived, in the
\* running process or on disk; a new run starts from what the last one wrote.
C10_AppendOnly ==
  [][/\ Preserved(file.doc.companies, file'.doc.companies)
     /\ pc = "loop" => Preserved(data.companies, data'.companies)
     /\ pc = "start" => data'.companies = file.doc.companies]_vars

\* In a second run the first company's feed offered the first story again
\* under another title, date and source: the stored item is still the one
\* archived first, next to the new story of that feed.
C10_Witness ==
  /\ pc = "loop"
  /\ runs = 1
  /\ feed = "B"
  /\ i = 2
  /\ added = 1
  /\ \E x \in ItemsOf(Entry(data.companies, COMPANIES[1].name)) :
       x.link = "L1" /\ x.title = "Talks Continue" /\ x.source = "Reuters"
  /\ "L3" \in Links(Entry(data.companies, COMPANIES[1].name))

====
